---- MODULE Spec2Model ----
(***************************************************************************)
(* Model of delete_old_backups.py: main() runs get_backup_files,           *)
(* identify_old_backups, delete_backups and generate_report in sequence    *)
(* over a directory tree.  The file system is the state `disk`; the        *)
(* variables named as in the source hold main()'s locals.                  *)
(***************************************************************************)
EXTENDS Integers, Sequences, FiniteSets

\* Bounds of the model.
NumBak == 2       \* number of distinct *.bak file names that may exist
MaxClock == 4     \* the system clock ("now") ranges over 0..MaxClock
MaxCtime == 2     \* creation times of files range over 0..MaxCtime
MaxSize == 2      \* a file's size is 1 or MaxSize
MaxAge == 1       \* --age ranges over 0..MaxAge

\* Clock ticks per day: (current_time - creation_time).days counts whole days.
TicksPerDay == 2

\* File names are sequences of characters.
BakSuffix == <<".", "b", "a", "k">>
StemChars == <<"a", "b", "c", "d", "e">>
BakNames == {<<StemChars[k]>> \o BakSuffix : k \in 1..NumBak}
NotesTxt == <<"n", ".", "t", "x", "t">>
BareBak == <<"b", "a", "k">>
OtherNames == {NotesTxt, BareBak}
Names == BakNames \cup OtherNames

NoFile == [present |-> FALSE, ctime |-> 0, size |-> 0]
FileRecs == [present : {TRUE}, ctime : 0..MaxCtime, size : {1, MaxSize}]
\* A file whose name is not *.bak is as old as a file can be.
OtherRec == [present |-> TRUE, ctime |-> 0, size |-> 1]

NoExit == 0 - 1

VARIABLES
    disk,               \* the files under backup_dir: name -> metadata or NoFile
    disk0,              \* the disk when the current run of main started
    dir_kind,           \* what backup_dir names: "dir", "file" or "missing"
    age_threshold,      \* args.age
    dry_run,            \* args.dry_run
    pc,                 \* the statement of main() to run next
    current_time,       \* identify_old_backups' datetime.now()
    clock,              \* the last time read from the system clock
    all_backups,        \* main's all_backups: <<path, creation_time>> pairs
    old_backups,        \* main's old_backups: paths
    i,                  \* delete_backups' position in backups_to_delete
    outcomes,           \* history: what each iteration of delete_backups did
    remaining_backups,  \* main's remaining_backups
    report,             \* the lines generate_report has logged: <<field, value>>
    exc,                \* the uncaught exception, or "none"
    exit_code,          \* the process's exit code, NoExit while running
    run,                \* 1 for the first invocation, 2 for the second
    prev                \* history: old_backups and outcomes of the previous run

vars == <<disk, disk0, dir_kind, age_threshold, dry_run, pc, current_time, clock,
          all_backups, old_backups, i, outcomes, remaining_backups, report, exc,
          exit_code, run, prev>>

args == <<dir_kind, age_threshold, dry_run>>

----------------------------------------------------------------------------
\* Helpers.

Range(s) == {s[k] : k \in 1..Len(s)}

Perms(S) == {s \in [1..Cardinality(S) -> S] : \A a, b \in 1..Cardinality(S) : s[a] = s[b] => a = b}

RECURSIVE SumSeq(_)
SumSeq(s) == IF s = <<>> THEN 0 ELSE Head(s) + SumSeq(Tail(s))

Min(S) == CHOOSE x \in S : \A y \in S : x <= y
Max(S) == CHOOSE x \in S : \A y \in S : x >= y

\* str.endswith
EndsWith(s, suf) ==
    /\ Len(s) >= Len(suf)
    /\ SubSeq(s, Len(s) - Len(suf) + 1, Len(s)) = suf

\* A scan that takes every file for a backup.
IsBackupName_AnyFile(file) == TRUE

\* file.endswith('.bak')
IsBackupName(file) == EndsWith(file, BakSuffix)

\* timedelta.days: whole days, rounded towards minus infinity
Days(delta) == delta \div TicksPerDay

\* An age test that also takes a file aged exactly the threshold.
IsOld_NotStrict(creation_time, now, threshold) == Days(now - creation_time) >= threshold

\* (current_time - creation_time).days > age_threshold
IsOld(creation_time, now, threshold) == Days(now - creation_time) > threshold

\* [file_path for file_path, creation_time in backup_files if ...]
OldOf(backup_files, now, threshold) ==
    LET keep(b) == IsOld(b[2], now, threshold)
        sel == SelectSeq(backup_files, keep)
    IN [k \in 1..Len(sel) |-> sel[k][1]]

\* A remaining list that leaves the old backups in.
RemainingOf_DropsNothing(backups, old) == backups

\* [b for b in all_backups if b[0] not in old_backups]
RemainingOf(backups, old) ==
    LET keep(b) == b[1] \notin Range(old)
    IN SelectSeq(backups, keep)

\* os.path.getsize of every path of a list; defined when all of them exist
SizesOf(paths) == [k \in 1..Len(paths) |-> disk[paths[k]].size]

CreationTimes(backups) == {backups[k][2] : k \in 1..Len(backups)}

----------------------------------------------------------------------------
\* The initial state: the command line is parsed, main() is about to run.

Init ==
    /\ dir_kind \in {"dir", "file", "missing"}
    /\ disk \in [Names -> FileRecs \cup {NoFile}]
    /\ \A f \in OtherNames : disk[f] \in {OtherRec, NoFile}
    /\ dir_kind # "dir" => \A f \in Names : disk[f] = NoFile
    /\ disk0 = disk
    /\ age_threshold \in 0..MaxAge
    /\ dry_run \in BOOLEAN
    /\ pc = "get_backup_files"
    /\ current_time = 0
    /\ clock = 0
    /\ all_backups = <<>>
    /\ old_backups = <<>>
    /\ i = 1
    /\ outcomes = <<>>
    /\ remaining_backups = <<>>
    /\ report = <<>>
    /\ exc = "none"
    /\ exit_code = NoExit
    /\ run = 1
    /\ prev = [old |-> <<>>, outcomes |-> <<>>]

----------------------------------------------------------------------------
\* main, line 55: os.walk lists nothing for a root that is missing or is not a
\* directory (its errors are ignored); the order of a listing is the system's.
GetBackupFiles ==
    /\ pc = "get_backup_files"
    /\ LET found == IF dir_kind = "dir"
                    THEN {f \in Names : disk[f].present /\ IsBackupName(f)}
                    ELSE {}
       IN \E order \in Perms(found) :
            all_backups' = [k \in 1..Cardinality(found) |-> <<order[k], disk[order[k]].ctime>>]
    /\ pc' = "identify_old_backups"
    /\ UNCHANGED <<disk, disk0, args, current_time, clock, old_backups, i, outcomes,
                   remaining_backups, report, exc, exit_code, run, prev>>

\* main, line 58
IdentifyOldBackups ==
    /\ pc = "identify_old_backups"
    /\ \E now \in clock..MaxClock :
        /\ clock' = now
        /\ current_time' = now
        /\ old_backups' = OldOf(all_backups, now, age_threshold)
    /\ i' = 1
    /\ pc' = "delete_backups"
    /\ UNCHANGED <<disk, disk0, args, all_backups, outcomes, remaining_backups, report,
                   exc, exit_code, run, prev>>

Outcome(kind, path) == [path |-> path, kind |-> kind, size |-> disk[path].size]

\* A dry-run iteration that removes the file all the same.
DeleteBackupsDry_Removes ==
    /\ pc = "delete_backups"
    /\ i <= Len(old_backups)
    /\ dry_run
    /\ disk' = [disk EXCEPT ![old_backups[i]] = NoFile]
    /\ outcomes' = Append(outcomes, Outcome("Simulated", old_backups[i]))
    /\ i' = i + 1
    /\ UNCHANGED <<disk0, args, pc, current_time, clock, all_backups, old_backups,
                   remaining_backups, report, exc, exit_code, run, prev>>

\* delete_backups, lines 31-33: one iteration of a dry run
DeleteBackupsDry ==
    /\ pc = "delete_backups"
    /\ i <= Len(old_backups)
    /\ dry_run
    /\ outcomes' = Append(outcomes, Outcome("Simulated", old_backups[i]))
    /\ i' = i + 1
    /\ UNCHANGED <<disk, disk0, args, pc, current_time, clock, all_backups, old_backups,
                   remaining_backups, report, exc, exit_code, run, prev>>

\* A removal that logs the deletion and leaves the file.
DeleteBackupsRemoved_KeepsFile ==
    /\ pc = "delete_backups"
    /\ i <= Len(old_backups)
    /\ ~dry_run
    /\ disk[old_backups[i]].present
    /\ outcomes' = Append(outcomes, Outcome("Deleted", old_backups[i]))
    /\ i' = i + 1
    /\ UNCHANGED <<disk, disk0, args, pc, current_time, clock, all_backups, old_backups,
                   remaining_backups, report, exc, exit_code, run, prev>>

\* delete_backups, lines 35-37: os.remove succeeds
DeleteBackupsRemoved ==
    /\ pc = "delete_backups"
    /\ i <= Len(old_backups)
    /\ ~dry_run
    /\ disk[old_backups[i]].present
    /\ disk' = [disk EXCEPT ![old_backups[i]] = NoFile]
    /\ outcomes' = Append(outcomes, Outcome("Deleted", old_backups[i]))
    /\ i' = i + 1
    /\ UNCHANGED <<disk0, args, pc, current_time, clock, all_backups, old_backups,
                   remaining_backups, report, exc, exit_code, run, prev>>

\* A failed removal whose OSError is not caught: the run ends there.
DeleteBackupsError_Raises ==
    /\ pc = "delete_backups"
    /\ i <= Len(old_backups)
    /\ ~dry_run
    /\ outcomes' = Append(outcomes, Outcome("Failed", old_backups[i]))
    /\ pc' = "exit"
    /\ exc' = "OSError"
    /\ exit_code' = 1
    /\ UNCHANGED <<disk, disk0, args, i, current_time, clock, all_backups, old_backups,
                   remaining_backups, report, run, prev>>

\* delete_backups, lines 35-39: os.remove raises OSError (permission denied, I/O
\* error, file missing), which is caught and logged
DeleteBackupsError ==
    /\ pc = "delete_backups"
    /\ i <= Len(old_backups)
    /\ ~dry_run
    /\ outcomes' = Append(outcomes, Outcome("Failed", old_backups[i]))
    /\ i' = i + 1
    /\ UNCHANGED <<disk, disk0, args, pc, current_time, clock, all_backups, old_backups,
                   remaining_backups, report, exc, exit_code, run, prev>>

\* main, line 63, once delete_backups has returned
ComputeRemaining ==
    /\ pc = "delete_backups"
    /\ i > Len(old_backups)
    /\ remaining_backups' = RemainingOf(all_backups, old_backups)
    /\ pc' = "generate_report"
    /\ UNCHANGED <<disk, disk0, args, current_time, clock, all_backups, old_backups, i,
                   outcomes, report, exc, exit_code, run, prev>>

\* generate_report, lines 43-45: os.path.getsize raises OSError for a path that
\* no longer exists; nothing in main catches it
GenerateReportSizeError ==
    /\ pc = "generate_report"
    /\ \E f \in Range(old_backups) : ~disk[f].present
    /\ report' = <<<<"deleted", Len(old_backups)>>>>
    /\ exc' = "OSError"
    /\ exit_code' = 1
    /\ pc' = "exit"
    /\ UNCHANGED <<disk, disk0, args, current_time, clock, all_backups, old_backups, i,
                   outcomes, remaining_backups, run, prev>>

\* generate_report, lines 43-47: min() of an empty sequence raises ValueError
GenerateReportEmptyError ==
    /\ pc = "generate_report"
    /\ \A f \in Range(old_backups) : disk[f].present
    /\ remaining_backups = <<>>
    /\ report' = << <<"deleted", Len(old_backups)>>,
                    <<"size", SumSeq(SizesOf(old_backups))>>,
                    <<"remaining", Len(remaining_backups)>> >>
    /\ exc' = "ValueError"
    /\ exit_code' = 1
    /\ pc' = "exit"
    /\ UNCHANGED <<disk, disk0, args, current_time, clock, all_backups, old_backups, i,
                   outcomes, remaining_backups, run, prev>>

\* generate_report, lines 43-48, all of it
GenerateReportOk ==
    /\ pc = "generate_report"
    /\ \A f \in Range(old_backups) : disk[f].present
    /\ remaining_backups # <<>>
    /\ report' = << <<"deleted", Len(old_backups)>>,
                    <<"size", SumSeq(SizesOf(old_backups))>>,
                    <<"remaining", Len(remaining_backups)>>,
                    <<"oldest", Min(CreationTimes(remaining_backups))>>,
                    <<"newest", Max(CreationTimes(remaining_backups))>> >>
    /\ pc' = "completed"
    /\ UNCHANGED <<disk, disk0, args, current_time, clock, all_backups, old_backups, i,
                   outcomes, remaining_backups, exc, exit_code, run, prev>>

\* main, line 66, and the interpreter's normal exit
Completed ==
    /\ pc = "completed"
    /\ pc' = "exit"
    /\ exit_code' = 0
    /\ UNCHANGED <<disk, disk0, args, current_time, clock, all_backups, old_backups, i,
                   outcomes, remaining_backups, report, exc, run, prev>>

\* The tool is invoked again with the same arguments once the first run has
\* exited: lines 68-75 and main, lines 51-53.
SecondRun ==
    /\ pc = "exit"
    /\ run = 1
    /\ run' = 2
    /\ prev' = [old |-> old_backups, outcomes |-> outcomes]
    /\ disk0' = disk
    /\ pc' = "get_backup_files"
    /\ all_backups' = <<>>
    /\ old_backups' = <<>>
    /\ i' = 1
    /\ outcomes' = <<>>
    /\ remaining_backups' = <<>>
    /\ report' = <<>>
    /\ exc' = "none"
    /\ exit_code' = NoExit
    /\ UNCHANGED <<disk, args, current_time, clock>>

Next ==
    \/ GetBackupFiles
    \/ IdentifyOldBackups
    \/ DeleteBackupsDry
    \/ DeleteBackupsRemoved
    \/ DeleteBackupsError
    \/ ComputeRemaining
    \/ GenerateReportSizeError
    \/ GenerateReportEmptyError
    \/ GenerateReportOk
    \/ Completed

Spec == Init /\ [][Next]_vars

\* Two invocations in succession with the same arguments, neither a dry run,
\* on a directory that also holds the files that are no backups.
InitTwice ==
    /\ Init
    /\ ~dry_run
    /\ dir_kind = "dir" => \A f \in OtherNames : disk[f] = OtherRec

NextTwice ==
    \/ GetBackupFiles
    \/ IdentifyOldBackups
    \/ DeleteBackupsRemoved
    \/ DeleteBackupsError
    \/ ComputeRemaining
    \/ GenerateReportSizeError
    \/ GenerateReportEmptyError
    \/ GenerateReportOk
    \/ Completed
    \/ SecondRun

SpecTwice == InitTwice /\ [][NextTwice]_vars

----------------------------------------------------------------------------
\* What the claims speak of.

Paths(backups) == {backups[k][1] : k \in 1..Len(backups)}

\* The files the current run has taken off the disk.
RemovedFromDisk == {f \in Names : disk0[f].present /\ ~disk[f].present}

\* delete_backups has returned (main is at line 63 or beyond).
DeletionDone == pc \in {"generate_report", "completed", "exit"}

OutcomePaths(kinds, os) == {os[k].path : k \in {j \in 1..Len(os) : os[j].kind \in kinds}}

RECURSIVE ReclaimedBytes(_)
ReclaimedBytes(os) ==
    IF os = <<>> THEN 0
    ELSE (IF Head(os).kind \in {"Deleted", "Simulated"} THEN Head(os).size ELSE 0)
         + ReclaimedBytes(Tail(os))

\* C1: in a dry run the disk is, in every state, the disk the run started with,
\* and every file of old_backups still exists.
C1_DryRunRemovesNothing ==
    dry_run =>
        /\ disk = disk0
        /\ \A k \in 1..Len(old_backups) : disk[old_backups[k]].present
        /\ \A k \in 1..Len(outcomes) : outcomes[k].kind = "Simulated"

C1_Witness ==
    /\ dry_run
    /\ pc = "exit"
    /\ Len(old_backups) = 2
    /\ Len(outcomes) = 2

\* C2: once identify_old_backups has run, a discovered file is in old_backups
\* exactly when its age, taken against the one current_time of the run, is at
\* least age_threshold + 1 whole days; a file aged exactly age_threshold days
\* is not in old_backups.
C2_RetentionBoundaryStrict ==
    pc \notin {"get_backup_files", "identify_old_backups"} =>
        \A k \in 1..Len(all_backups) :
            LET age == current_time - all_backups[k][2]
                old == all_backups[k][1] \in Range(old_backups)
            IN /\ old <=> age >= (age_threshold + 1) * TicksPerDay
               /\ age = age_threshold * TicksPerDay => ~old

C2_Witness ==
    /\ pc = "delete_backups"
    /\ age_threshold = 1
    /\ Len(all_backups) = 2
    /\ Len(old_backups) = 1
    /\ \E k \in 1..2 :
        /\ current_time - all_backups[k][2] = age_threshold * TicksPerDay
        /\ all_backups[k][1] \notin Range(old_backups)

\* C3: once main has computed remaining_backups, old_backups and the paths of
\* remaining_backups are disjoint, together they are the discovered paths, and
\* no path is listed twice.
C3_OldKeptPartition ==
    DeletionDone =>
        /\ Range(old_backups) \cap Paths(remaining_backups) = {}
        /\ Range(old_backups) \cup Paths(remaining_backups) = Paths(all_backups)
        /\ Len(old_backups) + Len(remaining_backups) = Len(all_backups)
        /\ Cardinality(Paths(all_backups)) = Len(all_backups)

C3_Witness ==
    /\ pc = "exit"
    /\ ~dry_run
    /\ Len(old_backups) = 1
    /\ Len(remaining_backups) = 1
    /\ outcomes[1].kind = "Failed"

\* C4: in a run that is not dry, the removals attempted so far are the first
\* i - 1 files of old_backups, one attempt each and in order, whatever each
\* attempt's result, and when delete_backups has returned every file of
\* old_backups has been attempted.
C4_DeletionFailuresIsolated ==
    ~dry_run =>
        /\ pc = "delete_backups" => Len(outcomes) = i - 1
        /\ Len(outcomes) <= Len(old_backups)
        /\ \A k \in 1..Len(outcomes) :
            /\ outcomes[k].path = old_backups[k]
            /\ outcomes[k].kind \in {"Deleted", "Failed"}
        /\ DeletionDone => Len(outcomes) = Len(old_backups)

C4_Witness ==
    /\ ~dry_run
    /\ DeletionDone
    /\ Len(outcomes) = 2
    /\ outcomes[1].kind = "Failed"
    /\ outcomes[2].kind = "Deleted"

\* C5: the total size the report gives is the sum of the sizes, before the
\* attempt, of the files whose outcome is Deleted or Simulated.
C5_ReclaimedBytesTotal ==
    \A k \in 1..Len(report) :
        report[k][1] = "size" => report[k][2] = ReclaimedBytes(outcomes)

\* C6: a run whose remaining_backups is empty ends without an exception, its
\* report holding a line for the oldest and the newest remaining backup.
C6_EmptyKeptReported ==
    (pc = "exit" /\ remaining_backups = <<>>) =>
        /\ exc = "none"
        /\ \E k \in 1..Len(report) : report[k][1] = "oldest"
        /\ \E k \in 1..Len(report) : report[k][1] = "newest"

\* C7: a run ends with exit code 0 and no exception when its root is a
\* directory, and with another exit code only when it is not.
C7_ValidRootExitsZero ==
    pc = "exit" =>
        /\ dir_kind = "dir" => (exit_code = 0 /\ exc = "none")
        /\ exit_code # 0 => dir_kind # "dir"

\* C8: a run whose root is not a directory goes from its first statement
\* straight to a failing exit: no discovery result is classified, nothing is
\* deleted or reported, and the disk is left as it was.
C8_InvalidRootAbortsFirst ==
    dir_kind # "dir" =>
        /\ pc \in {"get_backup_files", "exit"}
        /\ report = <<>>
        /\ disk = disk0
        /\ pc = "exit" => exit_code = 1

\* C9, as claimed: in the second of two runs that are not dry, no file the
\* first run classified old exists, is discovered or is identified.
C9_SecondRunFindsNoFirstOld ==
    (run = 2 /\ ~dry_run) =>
        \A f \in Range(prev.old) :
            /\ ~disk[f].present
            /\ f \notin Paths(all_backups)
            /\ f \notin Range(old_backups)

\* C9, amended: in the second of two runs that are not dry, no file the first
\* run removed exists, is discovered or is identified; these are the files the
\* first run classified old, less those whose removal failed, and every file
\* whose removal failed is still on the disk when the second run starts.
C9_SecondRunFindsNoFirstDeleted ==
    (run = 2 /\ ~dry_run) =>
        /\ \A f \in OutcomePaths({"Deleted"}, prev.outcomes) :
            /\ ~disk[f].present
            /\ f \notin Paths(all_backups)
            /\ f \notin Range(old_backups)
        /\ OutcomePaths({"Deleted", "Failed"}, prev.outcomes) = Range(prev.old)
        /\ \A f \in OutcomePaths({"Failed"}, prev.outcomes) : disk0[f].present

C9_Witness ==
    /\ run = 2
    /\ ~dry_run
    /\ pc = "exit"
    /\ OutcomePaths({"Deleted"}, prev.outcomes) # {}
    /\ OutcomePaths({"Failed"}, prev.outcomes) # {}
    /\ Len(all_backups) = 1
    /\ Len(old_backups) = 1

\* C10: in every state, every file the run has taken off the disk is a *.bak
\* file that delete_backups has already passed in old_backups, whose age
\* exceeds the threshold and which is not among remaining_backups; every
\* other file is on the disk as it was.
C10_OnlyOldBackupsRemoved ==
    /\ \A f \in RemovedFromDisk :
        /\ f \in BakNames
        /\ \E k \in 1..(i - 1) : k <= Len(old_backups) /\ old_backups[k] = f
        /\ current_time - disk0[f].ctime >= (age_threshold + 1) * TicksPerDay
        /\ f \notin Paths(remaining_backups)
    /\ \A f \in Names \ RemovedFromDisk : disk[f] = disk0[f]
    /\ \A f \in OtherNames : disk[f] = disk0[f]
    /\ \A k \in i..Len(old_backups) : disk[old_backups[k]] = disk0[old_backups[k]]

C10_Witness ==
    /\ pc = "exit"
    /\ RemovedFromDisk # {}
    /\ disk[NotesTxt].present
    /\ disk[BareBak].present
    /\ Len(remaining_backups) = 1
    /\ current_time - remaining_backups[1][2] = age_threshold * TicksPerDay

====
